---- MODULE Spec2Model ----
(***************************************************************************)
(* Model of shopping_list_sync: the sync cycle (sync.py), the state store  *)
(* (state.py) and the organizer (organizer.py).                            *)
(*                                                                         *)
(* Strings are sequences of one-character strings, so that lower(),        *)
(* strip(), replace() and the substring test are computed, not assumed.    *)
(***************************************************************************)
EXTENDS Integers, Sequences, FiniteSets, TLC

\* ---------------------------------------------------------------- bounds
\* scheduler ticks and direct calls explored in one behaviour
MaxTicks == 2
\* modifications of the remote list by other clients in one behaviour
MaxEdits == 1
\* failures of the organizer's remote writes in one behaviour
MaxFaults == 2
\* largest task id the remote service hands out
MaxTaskId == 4
\* number of top-level keys of a classification response
MaxRespKeys == 2

\* ------------------------------------------------------- program constants
\* stop_after_attempt(3)
MaxAttempts == 3
\* a scheduler that admits a second overlapping run
max_instances_two == 1 + 1

\* add_job(..., max_instances=1)
max_instances == 1

None == "None"
\* a file that does not exist; an existing file has the text written to it
Absent == [exists |-> FALSE, text |-> <<>>]
FileOf(text) == [exists |-> TRUE, text |-> text]
\* an Optional[datetime]: <<>> is None
NoTime == <<>>
Free == "free"

\* ------------------------------------------------------------------ strings
LowerChar(c) ==
    CASE c = "A" -> "a"
      [] c = "B" -> "b"
      [] c = "P" -> "p"
      [] c = "D" -> "d"
      [] c = "X" -> "x"
      [] c = "O" -> "o"
      [] OTHER -> c

\* str.lower()
Lower(s) == [i \in 1..Len(s) |-> LowerChar(s[i])]

\* str.replace(old, new) for one-character old and new
Replace(s, old, new) == [i \in 1..Len(s) |-> IF s[i] = old THEN new ELSE s[i]]

RECURSIVE LStrip(_)
LStrip(s) == IF s # <<>> /\ Head(s) = " " THEN LStrip(Tail(s)) ELSE s

RECURSIVE RStrip(_)
RStrip(s) ==
    IF s # <<>> /\ s[Len(s)] = " " THEN RStrip(SubSeq(s, 1, Len(s) - 1)) ELSE s

\* str.strip()
Strip(s) == RStrip(LStrip(s))

\* Python's  x in y  on strings
IsSubstring(x, y) ==
    \E i \in 0..(Len(y) - Len(x)) : SubSeq(y, i + 1, i + Len(x)) = x

\* item.content.lower().strip()
Normalize(content) == Strip(Lower(content))

\* category_name.lower().replace(' ', '_')
CategoryKey(category_name) == Replace(Lower(category_name), " ", "_")

\* ------------------------------------------------------------- data domains
TaskIds == 1..MaxTaskId

\* contents of shopping items: "a", "A " and "ab"
Contents == {<<"a">>, <<"A", " ">>, <<"a", "b">>}

\* the two configured categories "p" and "d_x" and their sections
KeyP == <<"p">>
KeyDX == <<"d", "_", "x">>
SecP == "sec_p"
SecDX == "sec_d_x"
Sections == {SecP, SecDX}

\* section_dict returned by setup_todoist_resources: category key -> section
section_dict == [k \in {KeyP, KeyDX} |-> IF k = KeyP THEN SecP ELSE SecDX]

\* display names a classification response may use as keys: "P", "D X", "O"
RespKeys == {<<"P">>, <<"D", " ", "X">>, <<"O">>}
\* item names a classification response may list
RespNames == {<<"a">>, <<"b">>}

\* exceptions raised by remote calls: requests' HTTPError for a 5xx response
\* and ConnectionError; HTTPError for a 400 (validation) and for a 404 (not
\* found) response; any other exception
TransientErrors == {"HTTPError", "ConnectionError"}
ClientErrors == {"HTTPError400", "HTTPError404"}
OtherErrors == {"ValueError"}
Errors == TransientErrors \cup ClientErrors \cup OtherErrors

\* the class of an exception
ExceptionType(e) == IF e \in ClientErrors THEN "HTTPError" ELSE e

\* the classes named by retry_if_exception_type
RetriedTypes == {"HTTPError", "ConnectionError"}


Jobs == {"job1", "job2"}
Callers == {"call1", "call2"}
Threads == Jobs \cup Callers

\* settings: ERROR_HANDLING_MODE, whether TODOIST_SYSTEM_PROJECT_ID is set,
\* and whether OPENAI_API_KEY lets the OpenAI client be constructed
Configs == {<<"log", TRUE, TRUE>>, <<"task", FALSE, TRUE>>,
            <<"both", TRUE, TRUE>>, <<"both", TRUE, FALSE>>}

\* a task of the remote list; parent_id is set on sub-tasks
Task(c, s, d, p) ==
    [content |-> c, section_id |-> s, is_completed |-> d, parent_id |-> p]

\* the ids present in a task table
Present(r) == DOMAIN r

\* the task table without task i
Without(r, i) == [j \in DOMAIN r \ {i} |-> r[j]]

\* the task table with task i set to tk
With(r, i, tk) == [j \in DOMAIN r \cup {i} |-> IF j = i THEN tk ELSE r[j]]

RECURSIVE SortedIds(_)
SortedIds(S) ==
    IF S = {} THEN <<>>
    ELSE LET m == CHOOSE x \in S : \A y \in S : x <= y
         IN  <<m>> \o SortedIds(S \ {m})

\* a list of Task objects, as get_tasks returns them
TaskList(r) ==
    LET ids == SortedIds(Present(r))
    IN  [k \in 1..Len(ids) |->
            [id |-> ids[k], content |-> r[ids[k]].content,
             section_id |-> r[ids[k]].section_id,
             parent_id |-> r[ids[k]].parent_id]]

\* the dict built by _get_current_tasks_state: id -> {content, section_id, is_completed}
Snapshot(r) ==
    [i \in Present(r) |->
        [content |-> r[i].content, section_id |-> r[i].section_id,
         is_completed |-> r[i].is_completed]]

EmptyDict == [i \in {} |-> None]

\* ---------------------------------------------------------------- variables
VARIABLES
    \* the remote service
    remote,             \* shopping project: task id -> task
    nextId,             \* the service never reuses an id: the next one it gives
    adminMarkers,       \* non-completed "Shopping List Sync Error" tasks in the system project
    edits,              \* modifications made by other clients so far
    faults,             \* failed remote writes of the organizer so far
    \* settings
    mode,               \* settings.ERROR_HANDLING_MODE
    sysProject,         \* settings.TODOIST_SYSTEM_PROJECT_ID is configured
    openaiOk,           \* OpenAI(api_key=settings.OPENAI_API_KEY) can be constructed
    \* SyncState and its files
    tasks_state, last_sync,
    file,               \* content of state_file, or Absent
    tmp,                \* content of state_file.with_suffix('.tmp'), or Absent
    loadLogged,         \* load() logged "Failed to load state"
    restarted,          \* the process has been started again
    \* process, scheduler and lock
    alive,              \* the process is running
    scheduler_state,    \* BackgroundScheduler: "running" or "stopped"
    sigInCycle,         \* a run was in progress when the shutdown signal arrived
    lock,               \* self._lock: Free or the thread holding it
    instances,          \* running instances of job 'shopping_sync' (APScheduler)
    pc,                 \* position of every thread
    ticks,              \* interval ticks and direct calls so far
    \* locals of the invocation that is inside the cycle body
    attempt,            \* attempts made by the gateway call in progress
    current_state, unlabeled_items, existing_items, unique_unlabeled_items,
    di,                 \* items of unlabeled_items the duplicate filter has handled
    categorized_items,  \* sequence of <<category_key, matching_tasks>>
    ai,                 \* moves of the apply loops already handled
    \* history of the gateway call and of the cycle
    gwLog,              \* outcome of every attempt of the latest gateway call
    gwResult,           \* its result: pending, ok, or error with the exception raised
    pre,                \* tasks_state, last_sync and file when the cycle began
    nUpdate, nSave,     \* calls of SyncState.update / SyncState.save in the cycle
    catFailed,          \* categorize_items raised in the cycle
    cfgFailed,          \* load_categories raised in the cycle
    skipped,            \* ids of the items whose move and recreation both failed in the cycle
    escalated,          \* the cycle posted a marker task
    \* history of the organize_shopping_list call in progress
    moveCount,          \* task id -> moves issued for it
    orgLog,             \* attempts of the latest remote call of the organizer that raised
    delReq, delFail,    \* ids the duplicate filter asked to delete / whose delete failed
    catInput,           \* whether categorize_items was called, and its item list
    category_to_items,  \* the classification response of the call, <<>> if none
    recreated,          \* the fallbacks that created a new item, and whether
                        \* the delete of the original succeeded
    fileAtSave,         \* state_file as it was before the save of the cycle
    \* history across cycles
    prevOutcome,        \* how the latest finished cycle ended
    retryDue,           \* a Categorizing failure happened and the remote list is untouched since
    otherMod,           \* another client modified the remote list since the cycle began
    prevClean,          \* the previous cycle completed and no other client wrote during it
    ticksFree,          \* ticks that arrived while no cycle was running
    bodies              \* cycle bodies entered

envVars == <<remote, nextId, adminMarkers, edits, faults>>
cfgVars == <<mode, sysProject, openaiOk>>
storeVars == <<tasks_state, last_sync, file, tmp>>
schedVars == <<lock, instances, pc>>
tickVars == <<ticks, ticksFree>>
gwVars == <<attempt, gwLog, gwResult>>
orgVars == <<unlabeled_items, existing_items, unique_unlabeled_items, di,
             categorized_items, ai>>
orgHist == <<moveCount, orgLog, delReq, delFail, catInput, category_to_items,
            recreated>>
cycleHist == <<pre, nUpdate, nSave, catFailed, cfgFailed, skipped, escalated,
              fileAtSave>>
runHist == <<prevOutcome, retryDue, otherMod, prevClean, bodies>>

vars == <<envVars, cfgVars, storeVars, loadLogged, restarted, alive, scheduler_state,
          sigInCycle, schedVars, tickVars, gwVars,
          current_state, orgVars, orgHist, cycleHist, runHist>>

\* the remote lists a run can start from: task 1 absent or "a" grouped under
\* "p"; task 2 absent or "A " or "ab" ungrouped; task 3 absent or "ab" ungrouped
InitIds == {1, 2, 3}
InitTasks(i) ==
    IF i = 1 THEN {Task(<<"a">>, SecP, FALSE, None)}
    ELSE IF i = 2 THEN {Task(<<"A", " ">>, None, FALSE, None),
                        Task(<<"a", "b">>, None, FALSE, None)}
    ELSE {Task(<<"a", "b">>, None, FALSE, None)}
InitRemotes ==
    UNION {{r \in [S -> UNION {InitTasks(i) : i \in S}] :
               \A i \in S : r[i] \in InitTasks(i)} : S \in SUBSET InitIds}

Pending == [state |-> "pending", err |-> None]
Ok == [state |-> "ok", err |-> None]
Raised(e) == [state |-> "error", err |-> e]

NotCalled == [called |-> FALSE, items |-> <<>>]

NoMoves == [i \in TaskIds |-> 0]

\* SyncState.__init__ followed by load() with no state file
Init ==
    /\ remote \in InitRemotes
    /\ nextId = 1 + Cardinality({i \in InitIds : \E j \in Present(remote) : i <= j})
    /\ adminMarkers = 0
    /\ edits = 0
    /\ faults = 0
    /\ \E c \in Configs : mode = c[1] /\ sysProject = c[2] /\ openaiOk = c[3]
    /\ tasks_state = EmptyDict
    /\ last_sync = NoTime
    /\ file = Absent
    /\ tmp = Absent
    /\ loadLogged = FALSE
    /\ restarted = FALSE
    /\ alive = TRUE
    /\ scheduler_state = "running"
    /\ sigInCycle = FALSE
    /\ lock = Free
    /\ instances = 0
    /\ pc = [t \in Threads |-> "idle"]
    /\ ticks = 0
    /\ ticksFree = 0
    /\ attempt = 0
    /\ gwLog = <<>>
    /\ gwResult = Pending
    /\ current_state = EmptyDict
    /\ unlabeled_items = <<>>
    /\ existing_items = <<>>
    /\ unique_unlabeled_items = <<>>
    /\ di = 0
    /\ categorized_items = <<>>
    /\ ai = 0
    /\ pre = [tasks_state |-> EmptyDict, last_sync |-> NoTime, file |-> Absent]
    /\ nUpdate = 0
    /\ nSave = 0
    /\ catFailed = FALSE
    /\ cfgFailed = FALSE
    /\ skipped = {}
    /\ escalated = FALSE
    /\ moveCount = NoMoves
    /\ orgLog = <<>>
    /\ delReq = {}
    /\ delFail = {}
    /\ catInput = NotCalled
    /\ category_to_items = <<>>
    /\ recreated = {}
    /\ fileAtSave = Absent
    /\ prevOutcome = "none"
    /\ retryDue = FALSE
    /\ otherMod = FALSE
    /\ prevClean = FALSE
    /\ bodies = 0

\* some invocation is waiting for the lock or inside the cycle body
CycleRunning == \E t \in Threads : pc[t] # "idle"

\* ------------------------------------------------------ scheduler and lock
\* BackgroundScheduler: the interval trigger fires; the executor refuses the
\* run when max_instances instances of the job are running
Tick ==
    /\ alive
    /\ scheduler_state = "running"
    /\ ticks < MaxTicks
    /\ ticks' = ticks + 1
    /\ ticksFree' = IF CycleRunning THEN ticksFree ELSE ticksFree + 1
    /\ IF instances < max_instances
       THEN /\ \E t \in Jobs : pc[t] = "idle"
            /\ pc' = [pc EXCEPT ![CHOOSE t \in Jobs : pc[t] = "idle"] = "acquire"]
            /\ instances' = instances + 1
       ELSE UNCHANGED <<pc, instances>>
    /\ UNCHANGED <<envVars, cfgVars, loadLogged, restarted, storeVars, alive, scheduler_state, sigInCycle, lock, gwVars,
                   current_state, orgVars, orgHist, cycleHist, runHist>>

\* the interval trigger fires again after the ticks that are counted: a run
\* starts unless one is in progress
TickMore ==
    /\ alive
    /\ scheduler_state = "running"
    /\ ticks = MaxTicks
    /\ instances < max_instances
    /\ \E t \in Jobs : pc[t] = "idle"
    /\ pc' = [pc EXCEPT ![CHOOSE t \in Jobs : pc[t] = "idle"] = "acquire"]
    /\ instances' = instances + 1
    /\ UNCHANGED <<envVars, cfgVars, loadLogged, restarted, storeVars, alive, scheduler_state,
                   sigInCycle, lock, tickVars, gwVars, current_state, orgVars,
                   orgHist, cycleHist, runHist>>

\* check_and_sync called from another thread of the process
DirectCall(t) ==
    /\ alive
    /\ t \in Callers
    /\ pc[t] = "idle"
    /\ ticks < MaxTicks
    /\ ticks' = ticks + 1
    /\ ticksFree' = IF CycleRunning THEN ticksFree ELSE ticksFree + 1
    /\ pc' = [pc EXCEPT ![t] = "acquire"]
    /\ UNCHANGED <<envVars, cfgVars, loadLogged, restarted, storeVars, alive, scheduler_state, sigInCycle, lock, instances,
                   gwVars, current_state, orgVars, orgHist, cycleHist, runHist>>

\* a cycle body that is not guarded by the lock
CanAcquireAlways(t) == TRUE

\* threading.Lock: acquire succeeds only on a free lock
CanAcquire(t) == lock = Free

\* the locals of organize_shopping_list and its history are those of a new call
OrgFresh ==
    /\ unlabeled_items' = <<>>
    /\ existing_items' = <<>>
    /\ unique_unlabeled_items' = <<>>
    /\ di' = 0
    /\ categorized_items' = <<>>
    /\ ai' = 0
    /\ moveCount' = NoMoves
    /\ orgLog' = <<>>
    /\ delReq' = {}
    /\ delFail' = {}
    /\ catInput' = NotCalled
    /\ category_to_items' = <<>>
    /\ recreated' = {}

\* with self._lock: entering the cycle body
AcquireLock(t) ==
    /\ alive
    /\ pc[t] = "acquire"
    /\ CanAcquire(t)
    /\ lock' = t
    /\ pc' = [pc EXCEPT ![t] = "get_project"]
    /\ bodies' = IF bodies <= MaxTicks THEN bodies + 1 ELSE bodies
    /\ pre' = [tasks_state |-> tasks_state, last_sync |-> last_sync, file |-> file]
    /\ nUpdate' = 0
    /\ nSave' = 0
    /\ catFailed' = FALSE
    /\ cfgFailed' = FALSE
    /\ skipped' = {}
    /\ escalated' = FALSE
    /\ fileAtSave' = file
    /\ OrgFresh
    /\ prevClean' = ((prevOutcome = "ok") /\ ~otherMod)
    /\ otherMod' = FALSE
    /\ gwLog' = <<>>
    /\ gwResult' = Pending
    /\ UNCHANGED <<envVars, cfgVars, loadLogged, restarted, storeVars, alive, scheduler_state, sigInCycle, instances, tickVars,
                   attempt, current_state, prevOutcome, retryDue>>

\* a lock released on return only, not on exception
LockAfterExitLeak(t, outcome) == IF outcome = "error" THEN t ELSE Free

\* leaving the with block: the lock is released on return and on exception
LockAfterExit(t, outcome) == Free

\* the executor's bookkeeping when a job run ends, normally or with an exception
InstancesAfterRun(t, outcome) == IF t \in Jobs THEN instances - 1 ELSE instances

\* the invocation leaves check_and_sync: outcome "ok", "noproject" or "error"
EndCycle(t, outcome) ==
    /\ lock' = LockAfterExit(t, outcome)
    /\ instances' = InstancesAfterRun(t, outcome)
    /\ pc' = [pc EXCEPT ![t] = "idle"]
    /\ prevOutcome' = outcome
    /\ attempt' = 0
    /\ current_state' = EmptyDict

\* the invocation stays in the cycle body and continues at p
Goto(t, p) ==
    /\ pc' = [pc EXCEPT ![t] = p]
    /\ UNCHANGED <<lock, instances, prevOutcome, attempt, current_state>>

\* ------------------------------------------------------------ retry gateway
\* a stop condition that is off by one
ShouldRetryOnceMore(e, n) ==
    ExceptionType(e) \in RetriedTypes /\ n <= MaxAttempts

\* retry_if_exception_type((HTTPError, ConnectionError)) with
\* stop_after_attempt(3): retry after the n-th attempt raised e
ShouldRetry(e, n) == ExceptionType(e) \in RetriedTypes /\ n < MaxAttempts

\* one attempt of a decorated call raised e: sleep and retry, or reraise;
\* check_and_sync logs the exception and raises on
GatewayRaise(t, e) ==
    /\ gwLog' = Append(gwLog, e)
    /\ IF ShouldRetry(e, attempt + 1)
       THEN /\ attempt' = attempt + 1
            /\ gwResult' = Pending
            /\ UNCHANGED <<schedVars, current_state, prevOutcome>>
       ELSE /\ gwResult' = Raised(e)
            /\ EndCycle(t, "error")

\* _get_shopping_project_id, one attempt: the project id, None, or an exception
GetShoppingProjectId(t) ==
    /\ alive
    /\ pc[t] = "get_project"
    /\ \/ /\ \E found \in BOOLEAN :
               IF found
               THEN /\ pc' = [pc EXCEPT ![t] = "project_found"]
                    /\ attempt' = 0
                    /\ UNCHANGED <<lock, instances, current_state, prevOutcome>>
               ELSE EndCycle(t, "noproject")
          /\ gwLog' = Append(gwLog, "ok")
          /\ gwResult' = Ok
       \/ \E e \in Errors : GatewayRaise(t, e)
    /\ UNCHANGED <<envVars, cfgVars, loadLogged, restarted, storeVars, alive, scheduler_state, sigInCycle, tickVars, orgVars,
                   orgHist, cycleHist, retryDue, otherMod, prevClean, bodies>>

\* a comparison by identity: a freshly built dict is never the stored one
has_changed_identity(candidate, stored) == TRUE

\* a comparison of the sets of task ids only
has_changed_members(candidate, stored) == DOMAIN candidate # DOMAIN stored

\* SyncState.has_changed
has_changed(candidate, stored) == candidate # stored

\* the call of _get_current_tasks_state begins
CallGetTasks(t) ==
    /\ alive
    /\ pc[t] = "project_found"
    /\ gwLog' = <<>>
    /\ gwResult' = Pending
    /\ Goto(t, "get_tasks")
    /\ UNCHANGED <<envVars, cfgVars, loadLogged, restarted, storeVars, alive, scheduler_state, sigInCycle, tickVars, orgVars,
                   orgHist, cycleHist, retryDue, otherMod, prevClean, bodies>>

\* _get_current_tasks_state, one attempt: an exception, or the snapshot
GetCurrentTasksState(t) ==
    /\ alive
    /\ pc[t] = "get_tasks"
    /\ \/ /\ current_state' = Snapshot(remote)
          /\ pc' = [pc EXCEPT ![t] = "diff"]
          /\ attempt' = 0
          /\ gwLog' = Append(gwLog, "ok")
          /\ gwResult' = Ok
          /\ UNCHANGED <<lock, instances, prevOutcome>>
       \/ \E e \in Errors : GatewayRaise(t, e)
    /\ UNCHANGED <<envVars, cfgVars, loadLogged, restarted, storeVars, alive, scheduler_state, sigInCycle, tickVars, orgVars,
                   orgHist, cycleHist, retryDue, otherMod, prevClean, bodies>>

\* if self.state.has_changed(current_state): ... else: "No changes detected"
Diff(t) ==
    /\ alive
    /\ pc[t] = "diff"
    /\ Goto(t, IF has_changed(current_state, tasks_state)
               THEN "org_init" ELSE "no_change")
    /\ gwLog' = <<>>
    /\ gwResult' = Pending
    /\ UNCHANGED <<envVars, cfgVars, loadLogged, restarted, storeVars, alive, scheduler_state, sigInCycle, tickVars, orgVars,
                   orgHist, cycleHist, retryDue, otherMod, prevClean, bodies>>

\* "Todoist sync check completed": the cycle returns normally
CycleReturn(t) ==
    /\ alive
    /\ pc[t] \in {"no_change", "committed"}
    /\ EndCycle(t, "ok")
    /\ UNCHANGED <<envVars, cfgVars, loadLogged, restarted, storeVars, alive, scheduler_state, sigInCycle, tickVars, gwLog,
                   gwResult, orgVars, orgHist, cycleHist, retryDue, otherMod,
                   prevClean, bodies>>

\* ---------------------------------------------------------------- organizer
\* the attempts of a remote call of the organizer that raised e: the call is
\* made on the client itself, once
OrgCallRaised(e) == <<e>>

\* the exception of a remote write that failed: a connection or server error
\* when the service could have done it, not found otherwise
WriteErrors(could) == IF could THEN TransientErrors ELSE {"HTTPError404"}

\* create_error_task without the look for an existing marker task
CreateErrorTaskNoLook(m) ==
    IF mode \notin {"task", "both"} THEN {m}
    ELSE IF ~sysProject THEN {m}
    ELSE {m, m + 1}

\* create_error_task: the numbers of non-completed marker tasks it can leave
CreateErrorTask(m) ==
    IF mode \notin {"task", "both"} THEN {m}
    ELSE IF ~sysProject THEN {m}
    ELSE IF m > 0 THEN {m}
    ELSE {m, m + 1}

\* if settings.ERROR_HANDLING_MODE in ('task', 'both'): create_error_task(...)
Escalate ==
    \E m \in (IF mode \in {"task", "both"}
              THEN CreateErrorTask(adminMarkers) ELSE {adminMarkers}) :
        /\ adminMarkers' = m
        /\ escalated' = (escalated \/ m > adminMarkers)

\* what an organizer step leaves alone besides the variables it names
OrgFrame ==
    UNCHANGED <<edits, cfgVars, loadLogged, restarted, storeVars, alive, scheduler_state, sigInCycle, tickVars, gwLog, gwResult,
                pre, nUpdate, nSave, fileAtSave, otherMod, prevClean, bodies>>

\* except Exception at the end of organize_shopping_list: escalate and raise;
\* check_and_sync logs and raises on
OrganizerRaise(t) ==
    /\ \E e \in TransientErrors : orgLog' = OrgCallRaised(e)
    /\ Escalate
    /\ retryDue' = TRUE
    /\ EndCycle(t, "error")
    /\ UNCHANGED <<remote, nextId, faults, orgVars, moveCount, delReq, delFail,
                   catInput, category_to_items, recreated, catFailed, cfgFailed, skipped>>

\* OpenAI(api_key=...), load_categories() and setup_todoist_resources()
OrgInit(t) ==
    /\ alive
    /\ pc[t] = "org_init"
    /\ \/ \* the OpenAI client cannot be constructed: escalate and return
          /\ ~openaiOk
          /\ Escalate
          /\ Goto(t, "update")
          /\ UNCHANGED <<remote, nextId, faults, orgVars, orgHist, catFailed, cfgFailed, skipped, retryDue>>
       \/ \* load_categories raises: log and return
          /\ openaiOk
          /\ cfgFailed' = TRUE
          /\ Goto(t, "update")
          /\ UNCHANGED <<remote, nextId, adminMarkers, faults, orgVars, orgHist,
                         catFailed, skipped, escalated, retryDue>>
       \/ \* setup_todoist_resources raises
          /\ openaiOk
          /\ OrganizerRaise(t)
       \/ /\ openaiOk
          /\ Goto(t, "org_unlabeled")
          /\ UNCHANGED <<remote, nextId, adminMarkers, faults, orgVars, orgHist,
                         catFailed, cfgFailed, skipped, escalated, retryDue>>
    /\ OrgFrame

IsUnlabeled(task) == task.section_id = None /\ task.parent_id = None

\* get_unlabeled_items
get_unlabeled_items(r) == SelectSeq(TaskList(r), IsUnlabeled)

IsExisting(task) == task.section_id # None \/ task.parent_id # None

\* get_existing_items: normalized contents of the grouped items and sub-tasks
get_existing_items(r) ==
    LET ts == SelectSeq(TaskList(r), IsExisting)
    IN  [k \in 1..Len(ts) |-> Normalize(ts[k].content)]

Range(q) == {q[k] : k \in 1..Len(q)}

\* unlabeled_items = get_unlabeled_items(...); if not unlabeled_items: return
OrgUnlabeled(t) ==
    /\ alive
    /\ pc[t] = "org_unlabeled"
    /\ \/ OrganizerRaise(t)
       \/ /\ unlabeled_items' = get_unlabeled_items(remote)
          /\ Goto(t, IF unlabeled_items' = <<>> THEN "update" ELSE "org_existing")
          /\ UNCHANGED <<remote, nextId, adminMarkers, faults, existing_items,
                         unique_unlabeled_items, di, categorized_items, ai,
                         orgHist, catFailed, cfgFailed, skipped, escalated, retryDue>>
    /\ OrgFrame

\* existing_items = get_existing_items(...)
OrgExisting(t) ==
    /\ alive
    /\ pc[t] = "org_existing"
    /\ \/ OrganizerRaise(t)
       \/ /\ existing_items' = get_existing_items(remote)
          /\ Goto(t, "org_dedup")
          /\ UNCHANGED <<remote, nextId, adminMarkers, faults, unlabeled_items,
                         unique_unlabeled_items, di, categorized_items, ai,
                         orgHist, catFailed, cfgFailed, skipped, escalated, retryDue>>
    /\ OrgFrame

\* a comparison of the raw content with the normalized existing contents
IsDuplicateRaw(item, existing) == item.content \in Range(existing)

\* if normalized_content in existing_items
IsDuplicate(item, existing) == Normalize(item.content) \in Range(existing)

\* n more remote writes fail although the service could have done them
Fails(n) == faults + n <= MaxFaults /\ faults' = faults + n

\* one iteration of the duplicate filter
OrgDedup(t) ==
    /\ alive
    /\ pc[t] = "org_dedup"
    /\ di < Len(unlabeled_items)
    /\ LET item == unlabeled_items[di + 1] IN
        IF IsDuplicate(item, existing_items)
        THEN /\ delReq' = delReq \cup {item.id}
             /\ \/ \* delete_task succeeds
                   /\ item.id \in Present(remote)
                   /\ remote' = Without(remote, item.id)
                   /\ UNCHANGED nextId
                   /\ retryDue' = FALSE
                   /\ UNCHANGED <<faults, delFail, orgLog>>
                \/ \* delete_task raises: logged
                   /\ Fails(IF item.id \in Present(remote) THEN 1 ELSE 0)
                   /\ \E e \in WriteErrors(item.id \in Present(remote)) :
                         orgLog' = OrgCallRaised(e)
                   /\ delFail' = delFail \cup {item.id}
                   /\ UNCHANGED <<remote, nextId, retryDue>>
             /\ UNCHANGED unique_unlabeled_items
        ELSE /\ unique_unlabeled_items' = Append(unique_unlabeled_items, item)
             /\ UNCHANGED <<remote, nextId, faults, delReq, delFail, retryDue,
                            orgLog>>
    /\ di' = di + 1
    /\ Goto(t, "org_dedup")
    /\ UNCHANGED <<adminMarkers, unlabeled_items, existing_items,
                   categorized_items, ai, moveCount, catInput,
                   category_to_items, recreated, catFailed, cfgFailed, skipped,
                   escalated>>
    /\ OrgFrame

\* after the filter: if not unique_unlabeled_items: return
OrgDedupDone(t) ==
    /\ alive
    /\ pc[t] = "org_dedup"
    /\ di = Len(unlabeled_items)
    /\ Goto(t, IF unique_unlabeled_items = <<>> THEN "update" ELSE "org_categorize")
    /\ UNCHANGED <<remote, nextId, adminMarkers, faults, orgVars, orgHist, catFailed, cfgFailed, skipped,
                   escalated, retryDue>>
    /\ OrgFrame

\* the classification responses: a mapping from display name to item names,
\* in the order of its keys
RespEntries == [name : RespKeys, items : SUBSET RespNames]
Responses ==
    {r \in UNION {[1..n -> RespEntries] : n \in 0..MaxRespKeys} :
        \A i, j \in 1..Len(r) : r[i].name = r[j].name => i = j}

\* categorized_items[category_key] = matching_tasks on a dict kept as a
\* sequence of <<key, value>> in insertion order
DictSet(d, key, value) ==
    IF \E k \in 1..Len(d) : d[k][1] = key
    THEN [k \in 1..Len(d) |-> IF d[k][1] = key THEN <<key, value>> ELSE d[k]]
    ELSE Append(d, <<key, value>>)

\* a match that does not look at the names: any task matches a category
\* that lists something
MatchesAny(item_names, task) == item_names # {}

\* any(item.lower() in task.content.lower() for item in item_names)
Matches(item_names, task) ==
    \E n \in item_names : IsSubstring(Lower(n), Lower(task.content))

\* categorize_items: map the response back to the tasks
RECURSIVE Reconcile(_, _, _)
Reconcile(resp, items, acc) ==
    IF resp = <<>> THEN acc
    ELSE LET e == Head(resp)
             Test(task) == Matches(e.items, task)
             matching_tasks == SelectSeq(items, Test)
         IN  Reconcile(Tail(resp), items,
                 IF matching_tasks # <<>>
                 THEN DictSet(acc, CategoryKey(e.name), matching_tasks)
                 ELSE acc)

\* the moves of "for category_key, items in categorized_items.items():
\* if items and category_key in section_dict: for item in items", in order
RECURSIVE Moves(_)
Moves(cat) ==
    IF cat = <<>> THEN <<>>
    ELSE LET key == Head(cat)[1]
             its == Head(cat)[2]
         IN  (IF its # <<>> /\ key \in DOMAIN section_dict
              THEN [k \in 1..Len(its) |->
                       [id |-> its[k].id, content |-> its[k].content,
                        section_id |-> section_dict[key]]]
              ELSE <<>>) \o Moves(Tail(cat))

\* try: categorized_items = categorize_items(...) except Exception: ... return
OrgCategorize(t) ==
    /\ alive
    /\ pc[t] = "org_categorize"
    /\ catInput' = [called |-> TRUE, items |-> unique_unlabeled_items]
    /\ \/ \* the call raises or the response is no mapping: escalate, return
          /\ catFailed' = TRUE
          /\ retryDue' = TRUE
          /\ Escalate
          /\ Goto(t, "update")
          /\ UNCHANGED <<categorized_items, ai, cfgFailed, skipped, category_to_items>>
       \/ \E resp \in Responses :
            /\ category_to_items' = resp
            /\ categorized_items' = Reconcile(resp, unique_unlabeled_items, <<>>)
            /\ ai' = 0
            /\ Goto(t, "org_apply")
            /\ retryDue' = FALSE
            /\ UNCHANGED <<adminMarkers, escalated, catFailed, cfgFailed, skipped>>
    /\ UNCHANGED <<remote, nextId, faults, unlabeled_items, existing_items,
                   unique_unlabeled_items, di, moveCount, orgLog, delReq,
                   delFail, recreated>>
    /\ OrgFrame

FreeIds(r) == {i \in TaskIds : i >= nextId} \ Present(r)

\* the id the service gives to the next task it creates
NewId(r) == CHOOSE i \in FreeIds(r) : \A j \in FreeIds(r) : i <= j

\* a fallback that deletes the task it has just created
DeleteTargetNew(item_id, new_id) == new_id

\* todoist_client.delete_task(task_id=item.id) of the fallback
DeleteTarget(item_id, new_id) == item_id

\* after "except Exception as add_error": the exception leaves the loop
ContinueApplyRaise(t) == EndCycle(t, "error")

\* "continue" after the recreation failed too: on to the next item
ContinueApply(t) == Goto(t, "org_apply")

\* one iteration of the inner apply loop: update_task, and on failure
\* add_task in the section followed by delete_task of the original
OrgApply(t) ==
    /\ alive
    /\ pc[t] = "org_apply"
    /\ ai < Len(Moves(categorized_items))
    /\ LET mv == Moves(categorized_items)[ai + 1]
           there == mv.id \in Present(remote)
           \* update_task on a task that is gone cannot succeed
           upd == IF there THEN 1 ELSE 0
       IN
        /\ moveCount' = [moveCount EXCEPT ![mv.id] = @ + 1]
        /\ \/ \* update_task succeeds
              /\ there
              /\ remote' = [remote EXCEPT ![mv.id].section_id = mv.section_id]
              /\ Goto(t, "org_apply")
              /\ UNCHANGED <<nextId, faults, recreated, orgLog, skipped>>
           \/ \* update_task raises, add_task succeeds, delete_task succeeds or raises
              /\ FreeIds(remote) # {}
              /\ nextId' = NewId(remote) + 1
              /\ Goto(t, "org_apply")
              /\ UNCHANGED skipped
              /\ LET added == With(remote, NewId(remote),
                                    Task(mv.content, mv.section_id, FALSE, None))
                     new == [id |-> mv.id, new_id |-> NewId(remote),
                             content |-> mv.content,
                             section_id |-> mv.section_id]
                 IN  \/ /\ there
                        /\ remote' = Without(added, DeleteTarget(mv.id, NewId(remote)))
                        /\ recreated' = recreated \cup {<<new, TRUE>>}
                        /\ Fails(upd)
                        /\ \E e \in WriteErrors(there) : orgLog' = OrgCallRaised(e)
                     \/ /\ remote' = added
                        /\ recreated' = recreated \cup {<<new, FALSE>>}
                        /\ Fails(upd + upd)
                        /\ \E e \in WriteErrors(there) : orgLog' = OrgCallRaised(e)
           \/ \* update_task raises and add_task raises: continue
              /\ Fails(upd + (IF FreeIds(remote) # {} THEN 1 ELSE 0))
              /\ \E e \in WriteErrors(FreeIds(remote) # {}) :
                    orgLog' = OrgCallRaised(e)
              /\ skipped' = skipped \cup {mv.id}
              /\ ContinueApply(t)
              /\ UNCHANGED <<remote, nextId, recreated>>
    /\ ai' = ai + 1
    /\ retryDue' = FALSE
    /\ UNCHANGED <<adminMarkers, unlabeled_items, existing_items,
                   unique_unlabeled_items, di, categorized_items, delReq,
                   delFail, catInput, category_to_items, catFailed, cfgFailed,
                   escalated>>
    /\ OrgFrame

\* a return from the apply loop before its last item
OrgApplyDoneEarly(t) ==
    /\ alive
    /\ pc[t] = "org_apply"
    /\ Goto(t, "update")
    /\ UNCHANGED <<remote, nextId, adminMarkers, faults, orgVars, orgHist, catFailed, cfgFailed, skipped,
                   escalated, retryDue>>
    /\ OrgFrame

\* "Shopping list organization completed successfully!"
OrgApplyDone(t) ==
    /\ alive
    /\ pc[t] = "org_apply"
    /\ ai = Len(Moves(categorized_items))
    /\ Goto(t, "update")
    /\ UNCHANGED <<remote, nextId, adminMarkers, faults, orgVars, orgHist, catFailed, cfgFailed, skipped,
                   escalated, retryDue>>
    /\ OrgFrame

\* --------------------------------------------------------------- SyncState
\* datetime.utcnow(): cycles are serialized, each reads a later time
utcnow == bodies

\* what a step of update or save leaves alone besides the variables it names
StoreFrame ==
    UNCHANGED <<envVars, cfgVars, loadLogged, restarted, alive, scheduler_state, sigInCycle, tickVars, gwLog, gwResult, pre,
                catFailed, cfgFailed, skipped, escalated, retryDue, otherMod, prevClean, bodies>>

\* an update that keeps the stored snapshot
UpdatedStateKept(new_state) == tasks_state

\* SyncState.update: self.tasks_state = new_state
UpdatedState(new_state) == new_state

\* organize_shopping_list has returned: self.state.update(current_state)
Update(t) ==
    /\ alive
    /\ pc[t] = "update"
    /\ tasks_state' = UpdatedState(current_state)
    /\ last_sync' = <<utcnow>>
    /\ nUpdate' = nUpdate + 1
    /\ OrgFresh
    /\ fileAtSave' = file
    /\ Goto(t, "save_open")
    /\ UNCHANGED <<file, tmp, nSave>>
    /\ StoreFrame

\* datetime.isoformat()
IsoFormat(ts) == <<"iso", ToString(ts)>>

\* the JSON text of a tasks dict: null for None
JsonTasks(ts) ==
    [i \in DOMAIN ts |->
        [content |-> ts[i].content,
         section_id |-> IF ts[i].section_id = None THEN "null" ELSE ts[i].section_id,
         is_completed |-> ts[i].is_completed]]

\* json.dump(state_dict, f): the text as the sequence of its two members
JsonDump(ts, ls) ==
    << [key |-> "tasks", value |-> JsonTasks(ts)],
       [key |-> "last_sync",
        value |-> IF ls = NoTime THEN <<"null">> ELSE IsoFormat(ls[1])] >>

\* a save that writes the state file in place
DumpPathTarget == "file"

\* the file json.dump writes to: temp_file = state_file.with_suffix('.tmp')
DumpPath == "tmp"

\* the content of the file at DumpPath becomes c
WriteDumpFile(c) ==
    IF DumpPath = "tmp" THEN tmp' = FileOf(c) /\ UNCHANGED file
    ELSE file' = FileOf(c) /\ UNCHANGED tmp

\* the text written to the file at DumpPath so far
DumpText == IF DumpPath = "tmp" THEN tmp.text ELSE file.text

\* except Exception in save: log and raise; check_and_sync raises on
SaveRaise(t) ==
    /\ EndCycle(t, "error")
    /\ UNCHANGED <<file, tmp>>

\* SyncState.save: mkdir and open(temp_file, 'w')
SaveOpen(t) ==
    /\ alive
    /\ pc[t] = "save_open"
    /\ nSave' = nSave + 1
    /\ \/ /\ WriteDumpFile(<<>>)
          /\ Goto(t, "save_dump")
       \/ SaveRaise(t)
    /\ UNCHANGED <<tasks_state, last_sync, nUpdate, fileAtSave, orgVars, orgHist>>
    /\ StoreFrame

\* json.dump writes the next part of the text; the write may fail part-way
SaveDump(t) ==
    /\ alive
    /\ pc[t] = "save_dump"
    /\ LET text == JsonDump(tasks_state, last_sync) IN
        \/ /\ WriteDumpFile(Append(DumpText, text[Len(DumpText) + 1]))
           /\ Goto(t, IF Len(DumpText) + 1 < Len(text) THEN "save_dump"
                      ELSE "save_replace")
        \/ SaveRaise(t)
    /\ UNCHANGED <<tasks_state, last_sync, nUpdate, nSave, fileAtSave, orgVars,
                   orgHist>>
    /\ StoreFrame

\* temp_file.replace(self.state_file)
SaveReplace(t) ==
    /\ alive
    /\ pc[t] = "save_replace"
    /\ \/ /\ IF DumpPath = "tmp"
             THEN file' = tmp /\ tmp' = Absent
             ELSE UNCHANGED <<file, tmp>>
          /\ Goto(t, "committed")
       \/ SaveRaise(t)
    /\ UNCHANGED <<tasks_state, last_sync, nUpdate, nSave, fileAtSave, orgVars,
                   orgHist>>
    /\ StoreFrame

\* ------------------------------------------------------------ process start
\* the values datetime.utcnow() can have given
Times == 0..(MaxTicks + 1)

\* SyncState.__init__: self.tasks_state = {}, self.last_sync = None
NewState == [tasks_state |-> EmptyDict, last_sync |-> NoTime]

\* json.load accepts the text: it is a complete document
JsonLoads(text) ==
    /\ Len(text) = 2
    /\ text[1].key = "tasks"
    /\ text[2].key = "last_sync"

\* a parse that leaves null as it is
ParseTasksNullKept(v) == v

\* data.get('tasks', {}): the parsed tasks, null read as None
ParseTasks(v) ==
    [i \in DOMAIN v |->
        [content |-> v[i].content,
         section_id |-> IF v[i].section_id = "null" THEN None ELSE v[i].section_id,
         is_completed |-> v[i].is_completed]]

\* datetime.fromisoformat accepts the string
IsIsoFormat(v) == Len(v) = 2 /\ v[1] = "iso" /\ \E n \in Times : ToString(n) = v[2]

\* datetime.fromisoformat
FromIsoFormat(v) == CHOOSE n \in Times : ToString(n) = v[2]

\* an except branch that leaves what load has set so far
AfterLoadErrorKeep(partial) ==
    [tasks_state |-> partial.tasks_state, last_sync |-> partial.last_sync,
     logged |-> TRUE]

\* except Exception in load: log, self.tasks_state = {}, self.last_sync = None
AfterLoadError(partial) ==
    [tasks_state |-> EmptyDict, last_sync |-> NoTime, logged |-> TRUE]

\* load returns from its try block with these attributes
Loaded(tasks, ls) == [tasks_state |-> tasks, last_sync |-> ls, logged |-> FALSE]

\* SyncState.load on the state file f, called on a new SyncState: the
\* attributes it leaves, and whether it logged an error
LoadFile(f) ==
    IF ~f.exists THEN Loaded(NewState.tasks_state, NewState.last_sync)
    ELSE IF ~JsonLoads(f.text) THEN AfterLoadError(NewState)
    ELSE LET tasks == ParseTasks(f.text[1].value)
             last_sync_str == f.text[2].value
         IN  IF last_sync_str = <<"null">>
             THEN Loaded(tasks, NewState.last_sync)
             ELSE IF IsIsoFormat(last_sync_str)
             THEN Loaded(tasks, <<FromIsoFormat(last_sync_str)>>)
             ELSE AfterLoadError([tasks_state |-> tasks,
                                  last_sync |-> NewState.last_sync])

\* the process starts: ShoppingListSync.__init__ builds the SyncState, the
\* lock and the scheduler and calls load(); open() may raise on a file that
\* exists
Load ==
    /\ ~alive
    /\ alive' = TRUE
    /\ scheduler_state' = "running"
    /\ sigInCycle' = FALSE
    /\ \E loaded \in {LoadFile(file)} \cup
                     (IF file.exists THEN {AfterLoadError(NewState)} ELSE {}) :
          /\ tasks_state' = loaded.tasks_state
          /\ last_sync' = loaded.last_sync
          /\ loadLogged' = loaded.logged
    /\ restarted' = TRUE
    /\ lock' = Free
    /\ instances' = 0
    /\ pc' = [t \in Threads |-> "idle"]
    /\ UNCHANGED <<envVars, cfgVars, file, tmp, tickVars, gwVars,
                   current_state, orgVars, orgHist, cycleHist, runHist>>

\* -------------------------------------------------------------- environment
\* a save is between its entry and the end of the rename
InSave(t) == pc[t] \in {"save_open", "save_dump", "save_replace"}

\* the process is killed while SyncState.save is running: what is in memory
\* is gone, the files and the remote list stay
Crash ==
    /\ alive
    /\ \E t \in Threads : InSave(t)
    /\ alive' = FALSE
    /\ UNCHANGED <<scheduler_state, sigInCycle>>
    /\ tasks_state' = EmptyDict
    /\ last_sync' = NoTime
    /\ lock' = Free
    /\ instances' = 0
    /\ pc' = [t \in Threads |-> "idle"]
    /\ attempt' = 0
    /\ current_state' = EmptyDict
    /\ gwLog' = <<>>
    /\ gwResult' = Pending
    /\ UNCHANGED <<envVars, cfgVars, loadLogged, restarted, file, tmp, tickVars, orgVars, orgHist,
                   cycleHist, runHist>>

\* another client changes the shopping list
OtherWrite(r) ==
    /\ alive
    /\ edits < MaxEdits
    /\ edits' = edits + 1
    /\ remote' = r
    /\ nextId' = IF \E i \in Present(r) : i >= nextId THEN nextId + 1 ELSE nextId
    /\ retryDue' = FALSE
    /\ otherMod' = TRUE
    /\ UNCHANGED <<adminMarkers, faults, cfgVars, loadLogged, restarted, storeVars, alive, scheduler_state, sigInCycle, schedVars,
                   tickVars, gwVars, current_state, orgVars, orgHist, cycleHist,
                   prevOutcome, prevClean, bodies>>

\* another client adds an ungrouped item
OtherAdd ==
    \E c \in Contents :
        /\ FreeIds(remote) # {}
        /\ OtherWrite(With(remote, NewId(remote), Task(c, None, FALSE, None)))

\* another client deletes an item
OtherDelete ==
    \E i \in Present(remote) : OtherWrite(Without(remote, i))

\* another client moves an item into a section or out of its section
OtherMove ==
    \E i \in Present(remote) : \E s \in Sections \cup {None} :
        /\ remote[i].section_id # s
        /\ OtherWrite([remote EXCEPT ![i].section_id = s])

\* ------------------------------------------------------------ specification
Cycle(t) ==
    \/ AcquireLock(t)
    \/ GetShoppingProjectId(t)
    \/ CallGetTasks(t)
    \/ GetCurrentTasksState(t)
    \/ Diff(t)
    \/ CycleReturn(t)
    \/ OrgInit(t)
    \/ OrgUnlabeled(t)
    \/ OrgExisting(t)
    \/ OrgDedup(t)
    \/ OrgDedupDone(t)
    \/ OrgCategorize(t)
    \/ OrgApply(t)
    \/ OrgApplyDone(t)
    \/ Update(t)
    \/ SaveOpen(t)
    \/ SaveDump(t)
    \/ SaveReplace(t)

OtherClients == OtherAdd \/ OtherDelete \/ OtherMove

\* the daemon: cycles are started by the scheduler only, and no other client
\* writes to the shopping list
Next ==
    \/ Tick
    \/ \E t \in Threads : Cycle(t)
    \/ Crash

Spec == Init /\ [][Next]_vars

\* the daemon with check_and_sync also called from other threads
NextCalls ==
    \/ Tick
    \/ \E t \in Callers : DirectCall(t)
    \/ \E t \in Threads : Cycle(t)
    \/ Crash

SpecCalls == Init /\ [][NextCalls]_vars

\* the daemon while other clients write to the shopping list
NextShared ==
    \/ Tick
    \/ \E t \in Threads : Cycle(t)
    \/ Crash
    \/ OtherClients

SpecShared == Init /\ [][NextShared]_vars

\* snapshots a state file can hold when the process starts
StoredSnapshots ==
    {EmptyDict} \cup
    {[i \in {1} |-> [content |-> c, section_id |-> sec, is_completed |-> d]] :
        <<c, sec, d>> \in {<<<<"a">>, SecP, FALSE>>, <<<<"a">>, SecP, TRUE>>,
                          <<<<"a", "b">>, SecP, FALSE>>, <<<<"a">>, None, FALSE>>}}

\* the state files a start can find: none, an empty one, a truncated one, one
\* whose last_sync is no timestamp, and complete ones
InitFiles ==
    {Absent, FileOf(<<>>)}
    \cup {FileOf(SubSeq(JsonDump(ts, <<1>>), 1, 1)) : ts \in {EmptyDict}}
    \cup {FileOf(<<JsonDump(ts, NoTime)[1],
                   [key |-> "last_sync", value |-> <<"never">>]>>) :
             ts \in {Snapshot(r) : r \in {q \in InitRemotes : Present(q) = {1}}}}
    \cup {FileOf(JsonDump(ts, <<0>>)) : ts \in StoredSnapshots}
    \cup {FileOf(JsonDump(EmptyDict, NoTime))}

\* a state before the first tick: the shopping list, the settings and the
\* state file drawn from the given sets, the process started or not
InitFrom(remotes, configs, files, started, markers) ==
    /\ remote \in remotes
    /\ nextId = 1 + Cardinality({i \in InitIds : \E j \in Present(remote) : i <= j})
    /\ adminMarkers \in markers
    /\ edits = 0
    /\ faults = 0
    /\ \E c \in configs : mode = c[1] /\ sysProject = c[2] /\ openaiOk = c[3]
    /\ tasks_state = EmptyDict
    /\ last_sync = NoTime
    /\ file \in files
    /\ tmp = Absent
    /\ loadLogged = FALSE
    /\ restarted = FALSE
    /\ alive = started
    /\ scheduler_state = "running"
    /\ sigInCycle = FALSE
    /\ lock = Free
    /\ instances = 0
    /\ pc = [t \in Threads |-> "idle"]
    /\ ticks = 0
    /\ ticksFree = 0
    /\ attempt = 0
    /\ gwLog = <<>>
    /\ gwResult = Pending
    /\ current_state = EmptyDict
    /\ unlabeled_items = <<>>
    /\ existing_items = <<>>
    /\ unique_unlabeled_items = <<>>
    /\ di = 0
    /\ categorized_items = <<>>
    /\ ai = 0
    /\ pre = [tasks_state |-> EmptyDict, last_sync |-> NoTime, file |-> Absent]
    /\ nUpdate = 0
    /\ nSave = 0
    /\ catFailed = FALSE
    /\ cfgFailed = FALSE
    /\ skipped = {}
    /\ escalated = FALSE
    /\ moveCount = NoMoves
    /\ orgLog = <<>>
    /\ delReq = {}
    /\ delFail = {}
    /\ catInput = NotCalled
    /\ category_to_items = <<>>
    /\ recreated = {}
    /\ fileAtSave = file
    /\ prevOutcome = "none"
    /\ retryDue = FALSE
    /\ otherMod = FALSE
    /\ prevClean = FALSE
    /\ bodies = 0

\* before the process has started, with any of these state files, a shopping
\* list that has task 1 and at most one more, and marker tasks enabled
InitLoad ==
    InitFrom({r \in InitRemotes : 1 \in Present(r) /\ Cardinality(Present(r)) <= 2},
             {d \in Configs : d[1] = "both"}, InitFiles, FALSE, {0})

\* the daemon from its start, and its restart after a kill
NextLoad ==
    \/ Load
    \/ Tick
    \/ \E t \in Threads : Cycle(t)
    \/ Crash

SpecLoad == InitLoad /\ [][NextLoad]_vars

\* shutdown(wait=False): the handler does not wait for the running job
JobsDoneNoWait == TRUE

\* self._scheduler.shutdown(): wait=True, the call returns when the running
\* job has ended
JobsDone == instances = 0

\* SIGINT or SIGTERM: shutdown_handler calls self._scheduler.shutdown(), which
\* stops the scheduler at once
ShutdownSignal ==
    /\ alive
    /\ scheduler_state = "running"
    /\ scheduler_state' = "stopped"
    /\ sigInCycle' = CycleRunning
    /\ UNCHANGED <<envVars, cfgVars, storeVars, loadLogged, restarted, alive, schedVars,
                   tickVars, gwVars, current_state, orgVars, orgHist, cycleHist,
                   runHist>>

\* shutdown() has returned: sys.exit(0)
Exit ==
    /\ alive
    /\ scheduler_state = "stopped"
    /\ JobsDone
    /\ alive' = FALSE
    /\ UNCHANGED <<envVars, cfgVars, storeVars, loadLogged, restarted, scheduler_state,
                   sigInCycle, schedVars, tickVars, gwVars, current_state,
                   orgVars, orgHist, cycleHist, runHist>>

\* started, with a shopping list of tasks 1 and 2 and marker tasks enabled
InitStop ==
    InitFrom({r \in InitRemotes : Present(r) = {1, 2}},
             {d \in Configs : d[1] = "both"}, {Absent}, TRUE, {0})

\* the daemon and a shutdown signal
NextStop ==
    \/ Tick
    \/ \E t \in Threads : Cycle(t)
    \/ ShutdownSignal
    \/ Exit

SpecStop == InitStop /\ [][NextStop]_vars

\* started on a system project that holds no marker task or one, with every
\* setting of ERROR_HANDLING_MODE, and a list that has task 3 ungrouped
InitEscalate ==
    InitFrom({r \in InitRemotes : 3 \in Present(r) /\ Cardinality(Present(r)) <= 2},
             Configs, {Absent}, TRUE, {0, 1})

SpecEscalate == InitEscalate /\ [][Next]_vars

\* the daemon, a shutdown signal, and the next start of the process
NextRestart ==
    \/ Tick
    \/ \E t \in Threads : Cycle(t)
    \/ ShutdownSignal
    \/ Exit
    \/ Load

SpecRestart == InitStop /\ [][NextRestart]_vars

\* started with escalation to the log only, on a list of task 1, grouped,
\* and task 3, ungrouped
InitOthers ==
    InitFrom({r \in InitRemotes : Present(r) = {1, 3}},
             {d \in Configs : d[1] = "log"}, {Absent}, TRUE, {0})

\* the daemon while other clients write to that list
SpecOthers == InitOthers /\ [][NextShared]_vars

\* started with escalation to the log only, on a list of task 3, ungrouped
InitLive ==
    InitFrom({r \in InitRemotes : Present(r) = {3}},
             {d \in Configs : d[1] = "log"}, {Absent}, TRUE, {0})

\* the daemon running on, with no other client and no kill
NextLive ==
    \/ Tick
    \/ TickMore
    \/ \E t \in Threads : Cycle(t)

\* the interval trigger keeps firing and a run that has started goes on
SpecLive ==
    /\ InitLive
    /\ [][NextLive]_vars
    /\ WF_vars(Tick \/ TickMore)
    /\ \A t \in Jobs : WF_vars(Cycle(t))

TypeOK ==
    /\ lock \in Threads \cup {Free}
    /\ instances \in 0..2
    /\ ticks \in 0..MaxTicks

\* =================================================================== properties
\* an invocation is inside the cycle body
InBody(t) == pc[t] \notin {"idle", "acquire"}

\* C1: at most one invocation of check_and_sync is inside the cycle body, and
\* it is the one that holds the lock, whatever ticks and direct calls are
\* in progress.
C1_MutualExclusion ==
    /\ Cardinality({t \in Threads : InBody(t)}) <= 1
    /\ \A t \in Threads : InBody(t) => lock = t

\* a run started by the scheduler is inside the body while a direct call
\* waits for the lock
C1_Witness ==
    \E t \in Jobs, u \in Callers :
        InBody(t) /\ lock = t /\ pc[u] = "acquire"

\* C2: in a cycle whose classification failed there is no update and no save,
\* and tasks_state, last_sync and the state file are as the cycle found them.
C2_CategorizationFailureNoCommit ==
    (alive /\ catFailed) =>
        /\ nUpdate = 0
        /\ nSave = 0
        /\ tasks_state = pre.tasks_state
        /\ last_sync = pre.last_sync
        /\ file = pre.file

\* C3: after a Categorizing failure with the remote list untouched since,
\* the next cycle does not find the list unchanged.
C3_RetryAfterCategorizingFailure ==
    \A t \in Threads : pc[t] = "no_change" => ~retryDue

\* C4: a cycle that follows a completed cycle, with no write of another client
\* since that cycle began, writes no state file and posts no marker task.
C4_Idempotence ==
    (prevClean /\ ~otherMod) => (nSave = 0 /\ ~escalated)

\* a state file is the complete text of one json.dump
WellFormed(f) ==
    f.exists =>
        /\ Len(f.text) = 2
        /\ f.text[1].key = "tasks"
        /\ f.text[2].key = "last_sync"

\* C5: while save has not completed its rename, and after a kill in that
\* window, the state file holds what it held when save was called; it never
\* holds a partial text.
C5_CrashSafety ==
    /\ \A t \in Threads : InSave(t) => file = fileAtSave
    /\ ~alive => file = fileAtSave
    /\ WellFormed(file)

\* the process was killed in the middle of json.dump, with an earlier state
\* file in place
C5_Witness ==
    /\ ~alive
    /\ file.exists
    /\ tmp.exists
    /\ Len(tmp.text) = 1
    /\ file = fileAtSave

AllTransient(log, n) == \A k \in 1..n : log[k] \in TransientErrors

\* C6: a gateway call makes at most 3 attempts; it gives up on a transient
\* error only after 3 attempts; transient failures on attempts 1 and 2 and a
\* success on attempt 3 give success; 3 transient failures propagate the last.
C6_RetryBudget ==
    /\ Len(gwLog) <= 3
    /\ (gwResult.state = "error" /\ gwResult.err \in TransientErrors)
          => Len(gwLog) = 3
    /\ (Len(gwLog) = 3 /\ AllTransient(gwLog, 2) /\ gwLog[3] = "ok")
          => gwResult = Ok
    /\ (Len(gwLog) = 3 /\ AllTransient(gwLog, 3))
          => gwResult = Raised(gwLog[3])

\* the fetch of the task list succeeded on its third attempt after a
\* connection failure and a server error
C6_Witness ==
    /\ gwLog = <<"ConnectionError", "HTTPError", "ok">>
    /\ gwResult = Ok
    /\ \E t \in Threads : pc[t] = "diff"

\* C7: the Applying phase issues at most one move for an item in one cycle.
C7_NoItemMovedTwice ==
    \A i \in TaskIds : moveCount[i] <= 1

\* C8: a tick that arrives while a cycle runs starts nothing, then or later:
\* no run waits behind a held lock, and no more cycle bodies are entered
\* than ticks arrived while no cycle was running.
C8_SkippedNotQueued ==
    /\ bodies <= ticksFree
    /\ \A t \in Threads : pc[t] = "acquire" => lock = Free

\* a tick arrived during a cycle, that cycle has ended, and only the cycle
\* of the first tick has run
C8_Witness ==
    /\ ticks = 2
    /\ ticksFree = 1
    /\ bodies = 1
    /\ ~CycleRunning
    /\ alive

\* C9: an ungrouped item whose normalized content is that of a grouped item
\* gets a delete request and is never passed to the categorizer, also when
\* its delete fails; every other ungrouped item is kept and passed on.
C9_DuplicateSuppression ==
    /\ delFail \subseteq delReq
    /\ \A k \in 1..Len(unlabeled_items) :
        LET item == unlabeled_items[k]
            dup == \E j \in 1..Len(existing_items) :
                      existing_items[j] = Strip(Lower(item.content))
        IN  /\ (k <= di /\ dup) =>
                  item.id \in delReq /\ item \notin Range(unique_unlabeled_items)
            /\ (k <= di /\ ~dup) => item \in Range(unique_unlabeled_items)
            /\ (catInput.called /\ dup) =>
                  item.id \in delReq /\ item \notin Range(catInput.items)
            /\ (catInput.called /\ ~dup) => item \in Range(catInput.items)

\* the delete of a duplicate failed, and the item after it was passed to the
\* categorizer without the duplicate
C9_Witness ==
    /\ catInput.called
    /\ delFail # {}
    /\ catInput.items # <<>>
    /\ \A k \in 1..Len(catInput.items) : catInput.items[k].id \notin delFail
    /\ \E k \in 1..Len(catInput.items) : \E i \in delFail : catInput.items[k].id > i

\* C10: whenever no cycle is running the lock is free and no job instance is
\* counted as running, also after a cycle that failed; a tick that arrives
\* then starts a cycle.
C10_FailedCycleNeverStopsDaemon ==
    /\ [](alive /\ ~CycleRunning => lock = Free /\ instances = 0)
    /\ [][(alive /\ ~CycleRunning /\ ticks' = ticks + 1) => CycleRunning']_vars

\* a cycle is inside its body after the cycle before it ended with an error
C10_Witness ==
    /\ prevOutcome = "error"
    /\ bodies = 2
    /\ \E t \in Threads : InBody(t)

\* C11: in a cycle in which loading the category rules failed there is no
\* update and no save, and tasks_state, last_sync and the state file are as
\* the cycle found them.
C11_ConfigFailureNoCommit ==
    (alive /\ cfgFailed) =>
        /\ nUpdate = 0
        /\ nSave = 0
        /\ tasks_state = pre.tasks_state
        /\ last_sync = pre.last_sync
        /\ file = pre.file

\* the invocation has fetched its candidate snapshot
Fetched(t) ==
    pc[t] \notin {"idle", "acquire", "get_project", "project_found", "get_tasks"}

\* C12: in a cycle whose fetched snapshot equals the snapshot stored when the
\* cycle began, the remote list stays as fetched, there is no classification
\* call, no marker task, no update and no save, and tasks_state, last_sync
\* and the state file stay as they were.
C12_UnchangedNoSideEffects ==
    \A t \in Threads :
        (Fetched(t) /\ current_state = pre.tasks_state) =>
            /\ Snapshot(remote) = current_state
            /\ moveCount = NoMoves
            /\ delReq = {}
            /\ ~catInput.called
            /\ ~escalated
            /\ nUpdate = 0
            /\ nSave = 0
            /\ tasks_state = pre.tasks_state
            /\ last_sync = pre.last_sync
            /\ file = pre.file

\* the second cycle found the list as the first cycle stored it
C12_Witness ==
    /\ bodies = 2
    /\ tasks_state # EmptyDict
    /\ file.exists
    /\ \E t \in Threads : pc[t] = "no_change" /\ current_state = tasks_state

\* the response lists, under a display name that converts to key, a name
\* that is a case-insensitive substring of the item's content
ListedUnder(item, key) ==
    \E k \in 1..Len(category_to_items) :
        LET e == category_to_items[k]
        IN  /\ Replace(Lower(e.name), " ", "_") = key
            /\ \E n \in e.items : IsSubstring(Lower(n), Lower(item.content))

\* C13: an item passed to the categorizer is moved (or recreated) into the
\* section of a category key only if the key is one of the rules and the
\* response lists a name matching the item under it; an item with no such
\* key gets no move and stays in the list, ungrouped.
C13_Reconciliation ==
    catInput.called =>
        /\ \A k \in 1..Len(catInput.items) :
            LET item == catInput.items[k]
                keys == {key \in DOMAIN section_dict : ListedUnder(item, key)}
            IN  /\ moveCount[item.id] > 0 => keys # {}
                /\ (item.id \in Present(remote)
                      /\ remote[item.id].section_id # None) =>
                        \E key \in keys : section_dict[key] = remote[item.id].section_id
                /\ keys = {} =>
                      /\ moveCount[item.id] = 0
                      /\ item.id \in Present(remote)
                      /\ remote[item.id].section_id = None
        /\ \A r \in recreated :
              \E key \in DOMAIN section_dict :
                  /\ ListedUnder(r[1], key)
                  /\ section_dict[key] = r[1].section_id

\* "ab" was moved to the section of "d_x" because "b" is listed under "D X";
\* "A " is matched by "a" only under "O", which has no rule, and stays ungrouped
C13_Witness ==
    /\ catInput.called
    /\ \E t \in Threads : pc[t] = "update"
    /\ \E k \in 1..Len(category_to_items) :
          category_to_items[k].name = <<"O">> /\ <<"a">> \in category_to_items[k].items
    /\ \E i, j \in Present(remote) :
          /\ remote[i].content = <<"a", "b">>
          /\ remote[i].section_id = SecDX
          /\ moveCount[i] = 1
          /\ remote[j].content = <<"A", " ">>
          /\ remote[j].section_id = None
          /\ moveCount[j] = 0

\* the item a fallback created is in the list, with the content of the
\* original, in the destination section
RecreatedExists(r) ==
    /\ r.new_id \in Present(remote)
    /\ remote[r.new_id].content = r.content
    /\ remote[r.new_id].section_id = r.section_id

\* C14 as stated: when update_task failed and add_task succeeded, the
\* original id is gone at the end of the organizer run and the new item is
\* in the destination section.
C14_MoveFallback ==
    \A t \in Threads : pc[t] = "update" =>
        \A r \in recreated :
            r[1].id \notin Present(remote) /\ RecreatedExists(r[1])

\* C14 amended: when update_task failed, add_task succeeded and the delete of
\* the original succeeded, the original id is gone and the new item is in
\* the destination section; whether or not the delete succeeded the new item
\* is there, the organizer run ends normally, and the cycle calls update with
\* the fetched snapshot and then save.
C14_MoveFallbackDeleted ==
    /\ [](\A t \in Threads : pc[t] \in {"org_apply", "update"} =>
            \A r \in recreated :
                /\ r[2] => r[1].id \notin Present(remote)
                /\ RecreatedExists(r[1]))
    /\ [][\A t \in Threads :
            /\ (pc[t] = "org_apply" /\ recreated # {}) =>
                  pc'[t] \in {"org_apply", "update"}
            /\ (pc[t] = "update" /\ pc'[t] # "update") =>
                  /\ pc'[t] = "save_open"
                  /\ nUpdate' = nUpdate + 1
                  /\ tasks_state' = current_state
            /\ (pc[t] = "save_open" /\ pc'[t] # "save_open" /\ alive') =>
                  nSave' = nSave + 1]_vars

\* a move failed, the item was created anew in the destination section and
\* the original was deleted; the cycle is about to commit
C14_Witness ==
    /\ \E t \in Threads : pc[t] = "update"
    /\ \E r \in recreated :
          r[2] /\ r[1].id \notin Present(remote) /\ RecreatedExists(r[1])

\* C15: a start always completes; with no state file it leaves tasks_state
\* empty and last_sync unset; when load logs a failure (the file cannot be
\* read or parsed, also when its tasks parse and its last_sync does not) it
\* leaves tasks_state empty and last_sync unset; otherwise the file is the
\* dump of the state it leaves.
C15_LoadTotal ==
    [][(~alive /\ alive') =>
        /\ ~file.exists =>
              tasks_state' = EmptyDict /\ last_sync' = NoTime /\ ~loadLogged'
        /\ loadLogged' => tasks_state' = EmptyDict /\ last_sync' = NoTime
        /\ (file.exists /\ ~loadLogged') =>
              file.text = JsonDump(tasks_state', last_sync')
        /\ (file.exists /\ (Len(file.text) < 2 \/ file.text[2].value = <<"never">>))
              => loadLogged']_vars

\* the process started on a state file whose tasks parse and whose last_sync
\* does not: it runs with an empty state
C15_Witness ==
    /\ alive
    /\ bodies = 0
    /\ loadLogged
    /\ file.exists
    /\ Len(file.text) = 2
    /\ file.text[1].value # JsonTasks(EmptyDict)
    /\ file.text[2].value = <<"never">>
    /\ tasks_state = EmptyDict
    /\ last_sync = NoTime

\* C16: once the scheduler is stopped no tick starts a run; the process
\* exits only with the scheduler stopped and no run in progress, so a run in
\* progress at the signal is never cut short.
C16_Shutdown ==
    /\ [][scheduler_state = "stopped" =>
            (ticks' = ticks /\ instances' <= instances)]_vars
    /\ [][(alive /\ ~alive') =>
            (scheduler_state = "stopped" /\ ~CycleRunning /\ instances = 0)]_vars
    /\ [](~alive => ~CycleRunning)

\* the signal arrived during a run; the run went on, saved its state, ended,
\* and then the process exited
C16_Witness ==
    /\ ~alive
    /\ scheduler_state = "stopped"
    /\ sigInCycle
    /\ bodies = 1
    /\ nSave = 1
    /\ prevOutcome = "ok"
    /\ file = FileOf(JsonDump(tasks_state, last_sync))

\* the same task ids and, for every id, the same content, group and
\* completion flag
SameSnapshot(a, b) ==
    /\ DOMAIN a = DOMAIN b
    /\ \A i \in DOMAIN a :
        /\ a[i].content = b[i].content
        /\ a[i].section_id = b[i].section_id
        /\ a[i].is_completed = b[i].is_completed

\* C17: has_changed is false exactly when the candidate and the stored
\* snapshot have the same ids and the same content, group and completion flag
\* for every id, true otherwise, and it changes neither snapshot nor the file.
C17_HasChanged ==
    [][\A t \in Threads :
        (alive' /\ pc[t] = "diff" /\ pc'[t] # "diff") =>
            /\ pc'[t] \in {"no_change", "org_init"}
            /\ pc'[t] = "no_change" <=> SameSnapshot(current_state, tasks_state)
            /\ pc'[t] = "org_init" <=> ~SameSnapshot(current_state, tasks_state)
            /\ UNCHANGED <<tasks_state, last_sync, file, tmp, current_state>>]_vars

\* the comparison reported a change where only the completion flag differs
C17_Witness ==
    \E t \in Threads :
        /\ pc[t] = "org_init"
        /\ alive
        /\ nUpdate = 0
        /\ DOMAIN current_state = DOMAIN tasks_state
        /\ DOMAIN current_state # {}
        /\ \A i \in DOMAIN current_state :
            /\ current_state[i].content = tasks_state[i].content
            /\ current_state[i].section_id = tasks_state[i].section_id
            /\ current_state[i].is_completed # tasks_state[i].is_completed

\* C18: a cycle calls update and save at most once each and update first;
\* update is called only when every item of the apply loop has been handled,
\* and the cycle changes nothing in the service after it; a cycle whose
\* fetching raised, or which found no project, calls neither.
C18_CommitPlacement ==
    /\ [](nUpdate <= 1 /\ nSave <= 1 /\ nSave <= nUpdate)
    /\ [][\A t \in Threads :
            (pc[t] = "update" /\ pc'[t] = "save_open") =>
                ai = Len(Moves(categorized_items))]_vars
    /\ [][(nUpdate >= 1 /\ nUpdate' >= 1) =>
            UNCHANGED <<remote, nextId, adminMarkers>>]_vars
    /\ [](\A t \in Threads :
            pc[t] \in {"get_project", "project_found", "get_tasks", "diff"} =>
                nUpdate = 0 /\ nSave = 0)
    /\ [][\A t \in Threads :
            (alive' /\ pc[t] \in {"get_project", "get_tasks"} /\ pc'[t] = "idle") =>
                /\ prevOutcome' \in {"error", "noproject"}
                /\ nUpdate' = 0
                /\ nSave' = 0
                /\ UNCHANGED <<tasks_state, last_sync, file, tmp>>]_vars

\* a cycle moved one item, found another gone and recreated it, deleted the
\* original of it, and then saved
C18_Witness ==
    /\ nUpdate = 1
    /\ nSave = 1
    /\ \E t \in Threads : pc[t] = "committed"
    /\ \E i \in Present(remote) : remote[i].section_id # None /\ i >= 4

\* C19: the snapshot a cycle commits records, for every item the cycle
\* handled in its apply loop and that is still in the list, the section the
\* item is in after the moves.
C19_CommitReflectsMoves ==
    [][\A t \in Threads :
        (pc[t] = "update" /\ pc'[t] = "save_open") =>
            \A i \in Present(remote) \cap DOMAIN tasks_state' :
                moveCount[i] > 0 =>
                    tasks_state'[i].section_id = remote[i].section_id]_vars

\* C20: a gateway call that fails with a validation or not-found error is
\* attempted once and the error propagates: such an error is the only entry
\* of the call's attempts and the result of the call.
C20_ClientErrorsNotRetried ==
    \A k \in 1..Len(gwLog) :
        gwLog[k] \in ClientErrors =>
            /\ Len(gwLog) = 1
            /\ gwResult = Raised(gwLog[1])

\* C21: a remote call of the organizer that is treated as failed after a
\* connection or server error has made 3 attempts.
C21_OrganizerCallsRetried ==
    (orgLog # <<>> /\ orgLog[Len(orgLog)] \in TransientErrors) =>
        Len(orgLog) = MaxAttempts

\* C22: when the move and the recreation of an item both fail, the list is
\* left as it was and the apply loop goes on with the next item; the apply
\* loop is left only when every one of its items has been handled, and only
\* towards update, so a cycle that skipped an item and has ended has updated.
C22_PartialApplyNeverAborts ==
    /\ [][\A t \in Threads :
            (alive' /\ pc[t] = "org_apply" /\ skipped' # skipped) =>
                /\ remote' = remote
                /\ pc'[t] = "org_apply"
                /\ ai' = ai + 1]_vars
    /\ [][\A t \in Threads :
            (alive' /\ pc[t] = "org_apply" /\ pc'[t] # "org_apply") =>
                /\ pc'[t] = "update"
                /\ \A k \in 1..Len(Moves(categorized_items)) :
                      moveCount[Moves(categorized_items)[k].id] > 0]_vars
    /\ []((alive /\ skipped # {} /\ ~CycleRunning) => nUpdate = 1)

\* the first cycle skipped an item, which is still ungrouped in the list,
\* moved another one, and saved
C22_Witness ==
    /\ bodies = 1
    /\ nSave = 1
    /\ \E t \in Threads : pc[t] = "committed"
    /\ \E i \in skipped : i \in Present(remote) /\ remote[i].section_id = None
    /\ \E j \in Present(remote) \ skipped :
          /\ j \in DOMAIN tasks_state
          /\ tasks_state[j].section_id = None
          /\ remote[j].section_id # None

\* escalation posts marker tasks: mode 'task' or 'both' and a system project
EscalationEnabled == mode \in {"task", "both"} /\ sysProject

\* C23: the system project never holds more than one non-completed marker
\* task; one is posted only when escalation is enabled and the system project
\* is configured; whether or not the marker could be read or posted, a failed
\* construction of the OpenAI client and a failed categorization go on to
\* update, and a failure of the organizer's own calls ends the cycle in error.
C23_DeduplicatedEscalation ==
    /\ [](adminMarkers <= 1)
    /\ [][adminMarkers' # adminMarkers =>
            (EscalationEnabled /\ adminMarkers = 0 /\ adminMarkers' = 1)]_vars
    /\ [][\A t \in Threads :
            /\ (alive' /\ pc[t] = "org_init" /\ pc'[t] # pc[t] /\ ~openaiOk) =>
                    pc'[t] = "update"
            /\ (alive' /\ pc[t] = "org_categorize" /\ pc'[t] # pc[t]
                /\ catFailed') => pc'[t] = "update"
            /\ (alive' /\ pc[t] \in {"org_init", "org_unlabeled", "org_existing"}
                /\ pc'[t] = "idle") => prevOutcome' = "error"]_vars

\* the first cycle failed in the organizer and a marker task is there; the
\* second cycle's categorization failed and posted no second one
C23_Witness ==
    /\ EscalationEnabled
    /\ bodies = 2
    /\ adminMarkers = 1
    /\ catFailed
    /\ ~escalated
    /\ \E t \in Threads : pc[t] = "update"

\* the ids of the ungrouped items of a snapshot
UngroupedIds(snap) == {i \in DOMAIN snap : snap[i].section_id = None}

\* the normalized contents of the grouped items of a snapshot
GroupedContents(snap) ==
    {Normalize(snap[i].content) : i \in {j \in DOMAIN snap : snap[j].section_id # None}}

\* C24: the ungrouped items the organizer works on, and the grouped contents
\* it compares them with, are those of the snapshot the cycle fetched.
C24_OneSnapshotPerCycle ==
    \A t \in Threads :
        /\ (alive /\ pc[t] \in {"org_existing", "org_dedup", "org_categorize",
                                "org_apply"}) =>
              /\ {unlabeled_items[k].id : k \in 1..Len(unlabeled_items)}
                    = UngroupedIds(current_state)
              /\ \A k \in 1..Len(unlabeled_items) :
                    unlabeled_items[k].content
                        = current_state[unlabeled_items[k].id].content
        /\ (alive /\ pc[t] \in {"org_dedup", "org_categorize", "org_apply"}) =>
              Range(existing_items) = GroupedContents(current_state)

\* C25: while the process runs and no cycle is in progress, tasks_state is
\* what a load of the state file gives: empty when the file is absent or
\* unreadable.
C25_MemoryMatchesDisk ==
    (alive /\ ~CycleRunning) => tasks_state = LoadFile(file).tasks_state

\* the stored snapshot is that of the list, and no invocation is past the
\* comparison on its way to the organizer, to update or to save
Quiet ==
    /\ tasks_state = Snapshot(remote)
    /\ \A t \in Threads :
          pc[t] \in {"idle", "acquire", "get_project", "project_found",
                     "get_tasks", "diff", "no_change"}

C27_PersistenceRoundTrip ==
    /\ [](\A t \in Threads :
            (alive /\ pc[t] = "committed") =>
                LoadFile(file) = Loaded(tasks_state, last_sync))
    /\ [][(~alive /\ alive' /\ file = FileOf(JsonDump(tasks_state, last_sync))
           /\ ~loadLogged') =>
            /\ tasks_state' = tasks_state
            /\ ~has_changed(tasks_state, tasks_state')
            /\ has_changed(Snapshot(remote), tasks_state')
                  = has_changed(Snapshot(remote), tasks_state)]_vars

\* after a commit, an exit and a new start that read the file, the first
\* cycle of the new process reports no change
C27_Witness ==
    /\ alive
    /\ restarted
    /\ ~loadLogged
    /\ bodies = 2
    /\ nUpdate = 0
    /\ tasks_state # EmptyDict
    /\ \E i \in DOMAIN tasks_state : tasks_state[i].section_id = None
    /\ file = FileOf(JsonDump(tasks_state, last_sync))
    /\ \E t \in Threads : pc[t] = "no_change"

====
